---------------------------- MODULE Spec2Model ----------------------------
(***************************************************************************)
(* A model of fim_mosaicker/mosaic.py: mosaic_rasters opens a list of      *)
(* single-band rasters, checks that they share a CRS and a resolution,     *)
(* plans the output grid over the union of their extents, composites the   *)
(* inputs block by block with a nodata-aware maximum, optionally clips the *)
(* written raster with a vector geometry, and closes the inputs.  The last *)
(* part of the module models hand_inundator/inundate.py.                   *)
(*                                                                         *)
(* Coordinates are integers in a ground unit; a raster's pixel size is a   *)
(* whole number of units per axis, so extents that are not whole pixels    *)
(* apart can be written down and every quotient is an exact rational.      *)
(* Floating-point round-off is not modelled.  Pixels are <<row, col>>,     *)
(* counted from the top-left corner, from 0.  Sample values are integers;  *)
(* a source's sample type is taken to hold every value drawn for it.       *)
(***************************************************************************)
EXTENDS Integers, Sequences, FiniteSets, TLC

(***************************************************************************)
(* Bounds of the model.                                                    *)
(***************************************************************************)
\* Largest column offset (in pixels) of an input's left edge.
MaxOff == 2
\* Largest width (in pixels) of an input.
MaxW == 2

(***************************************************************************)
(* Program constants.                                                      *)
(***************************************************************************)
\* blockxsize = blockysize of the output profile.  The program uses 256;
\* the model scales the tile edge down and keeps everything relative to it.
BlockSize == 2
\* nodata of a depth mosaic
DepthNodata == -9999
\* nodata of an extent mosaic
ExtentNodata == 255

FimTypes == {"depth", "extent"}

\* The output nodata sentinel selected by fim_type.
Nodata(ft) == IF ft = "depth" THEN DepthNodata ELSE ExtentNodata

(***************************************************************************)
(* Arithmetic helpers.                                                     *)
(***************************************************************************)
Max2(a, b) == IF a >= b THEN a ELSE b
Min2(a, b) == IF a <= b THEN a ELSE b

SetMax(S) == CHOOSE x \in S : \A y \in S : y <= x
SetMin(S) == CHOOSE x \in S : \A y \in S : x <= y

\* Python's int(): truncation towards zero of the rational num/den, den > 0.
IntTrunc(num, den) == IF num >= 0 THEN num \div den ELSE -((-num) \div den)

\* int(num/den + 0.5), den > 0.
RoundHalfUp(num, den) == IntTrunc(2 * num + den, 2 * den)

\* floor(num/den), den > 0.
Floor(num, den) == num \div den

Pixels(height, width) == (0 .. height - 1) \X (0 .. width - 1)

(***************************************************************************)
(* A raster file: crs, res = <<x size, y size>>, its upper-left corner     *)
(* (left, top), its size in pixels, its declared nodata ({} when the file  *)
(* declares none, {v} when it declares v) and its samples.                 *)
(***************************************************************************)
SrcBounds(src) ==
    [left   |-> src.left,
     bottom |-> src.top - src.height * src.res[2],
     right  |-> src.left + src.width * src.res[1],
     top    |-> src.top]

\* src.nodata is None
NoNodata(src) == src.nodata = {}

\* The fill of a boundless read called with fill_value=src.nodata: the
\* declared nodata, and 0 when the file declares none.
FillValue(src) == IF NoNodata(src) THEN 0 ELSE CHOOSE v \in src.nodata : TRUE

(***************************************************************************)
(* Consistency checks of the opened inputs.                                *)
(***************************************************************************)
SameCRS(files) == \A i \in 1 .. Len(files) : files[i].crs = files[1].crs

\* Mutant of SameRes: the resolutions are assumed equal and never compared.
SameResAssumed(files) == TRUE

SameRes(files) == \A i \in 1 .. Len(files) : files[i].res = files[1].res

(***************************************************************************)
(* The output grid: union of the inputs' bounds, dimensions by             *)
(* int(extent / res + 0.5) with the first input's resolution.              *)
(***************************************************************************)
UnionBounds(files) ==
    LET b == [i \in 1 .. Len(files) |-> SrcBounds(files[i])]
        I == 1 .. Len(files)
    IN  [left   |-> SetMin({b[i].left : i \in I}),
         bottom |-> SetMin({b[i].bottom : i \in I}),
         right  |-> SetMax({b[i].right : i \in I}),
         top    |-> SetMax({b[i].top : i \in I})]

OutWidth(files) ==
    LET u == UnionBounds(files)
    IN  RoundHalfUp(u.right - u.left, files[1].res[1])

OutHeight(files) ==
    LET u == UnionBounds(files)
    IN  RoundHalfUp(u.top - u.bottom, files[1].res[2])

\* The part of the output profile the run depends on.  The transform is
\* from_bounds(left, bottom, right, top, width, height): the pixel size is
\* (right - left) / width by (top - bottom) / height.
MakeProfile(files, ft) ==
    LET u == UnionBounds(files)
    IN  [left |-> u.left, bottom |-> u.bottom, right |-> u.right, top |-> u.top,
         width |-> OutWidth(files), height |-> OutHeight(files),
         nodata |-> Nodata(ft)]

NoProfile ==
    [left |-> 0, bottom |-> 0, right |-> 0, top |-> 0,
     width |-> 0, height |-> 0, nodata |-> 0]

(***************************************************************************)
(* dst.block_windows(1): the tiles of the output in row-major order, the   *)
(* last one of each row and column cut at the grid's edge.                 *)
(***************************************************************************)
CeilDiv(a, b) == (a + b - 1) \div b

\* Mutant of BlockWindows: the last tile of a row or a column is not cut.
BlockWindowsUncut(p) ==
    LET nbx == CeilDiv(p.width, BlockSize)
        nby == CeilDiv(p.height, BlockSize)
    IN  [n \in 1 .. nbx * nby |->
            [col_off |-> ((n - 1) % nbx) * BlockSize,
             row_off |-> ((n - 1) \div nbx) * BlockSize,
             width   |-> BlockSize,
             height  |-> BlockSize]]

BlockWindows(p) ==
    LET nbx == CeilDiv(p.width, BlockSize)
        nby == CeilDiv(p.height, BlockSize)
    IN  [n \in 1 .. nbx * nby |->
            LET bi == (n - 1) \div nbx
                bj == (n - 1) % nbx
            IN  [col_off |-> bj * BlockSize,
                 row_off |-> bi * BlockSize,
                 width   |-> Min2(BlockSize, p.width - bj * BlockSize),
                 height  |-> Min2(BlockSize, p.height - bi * BlockSize)]]

(***************************************************************************)
(* src.window of the block's bounds, then round_offsets, round_lengths.   *)
(* The window of the block in the source's pixel coordinates: the block's  *)
(* rectangle mapped through the source's transform, not cut to the         *)
(* source's extent.  With a = left + col_off * (right-left)/width the      *)
(* block's left edge, col_off_src = (a - src.left) / src.res[1], a         *)
(* rational over the denominator width * src.res[1].                       *)
(***************************************************************************)
SrcWindowRaw(src, p, w) ==
    LET denx == p.width * src.res[1]
        deny == p.height * src.res[2]
    IN  [col_num |-> (p.left - src.left) * p.width + w.col_off * (p.right - p.left),
         row_num |-> (src.top - p.top) * p.height + w.row_off * (p.top - p.bottom),
         w_num   |-> w.width * (p.right - p.left),
         h_num   |-> w.height * (p.top - p.bottom),
         denx    |-> denx,
         deny    |-> deny]

\* The overlap test of the block loop: src_window.width <= 0 or
\* src_window.height <= 0.
NoOverlap(src, p, w) ==
    LET raw == SrcWindowRaw(src, p, w)
    IN  raw.w_num <= 0 \/ raw.h_num <= 0

\* round_offsets takes the offsets down and round_lengths takes the lengths
\* to the nearest whole number; for inputs on the output's grid the
\* quotients are whole and both leave them as they are.
SrcWindow(src, p, w) ==
    LET raw == SrcWindowRaw(src, p, w)
    IN  [col_off |-> Floor(raw.col_num, raw.denx),
         row_off |-> Floor(raw.row_num, raw.deny),
         width   |-> RoundHalfUp(raw.w_num, raw.denx),
         height  |-> RoundHalfUp(raw.h_num, raw.deny)]

InSource(src, r, c) == r >= 0 /\ r < src.height /\ c >= 0 /\ c < src.width

\* src.read(1, window=src_window, boundless=True, fill_value=src.nodata):
\* the samples of the window, the fill where the window leaves the source.
ReadWindow(src, sw) ==
    [q \in Pixels(sw.height, sw.width) |->
        IF InSource(src, sw.row_off + q[1], sw.col_off + q[2])
        THEN src.data[<<sw.row_off + q[1], sw.col_off + q[2]>>]
        ELSE FillValue(src)]

(***************************************************************************)
(* Compositing one source into the block's buffer.                         *)
(***************************************************************************)
\* Mutant of ValidMask: the source's nodata is ignored.
ValidMaskAll(src, data) == [q \in DOMAIN data |-> TRUE]

\* valid_mask: every sample when the source declares no nodata, else the
\* samples that differ from the source's own nodata.
ValidMask(src, data) ==
    [q \in DOMAIN data |-> NoNodata(src) \/ data[q] \notin src.nodata]

\* Mutant of Binarize: 1 only where the sample is positive.
BinarizePositive(data, valid) ==
    [q \in DOMAIN data |-> IF valid[q] /\ data[q] > 0 THEN 1 ELSE 0]

\* extent mode: 1 where valid and nonzero, 0 elsewhere.
Binarize(data, valid) ==
    [q \in DOMAIN data |-> IF valid[q] /\ data[q] # 0 THEN 1 ELSE 0]

\* Mutant of MergeValid: overlapping valid samples are added up.
MergeValidSum(o, t, nodata) == IF o # nodata THEN o + t ELSE t

\* The update of one buffer sample o by a valid candidate t: the maximum
\* where the buffer does not hold the output nodata, the candidate where
\* it does.
MergeValid(o, t, nodata) == IF o # nodata THEN Max2(o, t) ELSE t

\* The body of "for src in src_files" for one source: the buffer and the
\* has_valid_data flag after it.  An error raised inside the try block is
\* caught and the loop goes on; the only one the model can raise is numpy's,
\* when the window read has another shape than the block.
CompositeSource(out, hv, src, p, w, ft) ==
    IF NoOverlap(src, p, w)
    THEN [out_data |-> out, has_valid_data |-> hv]
    ELSE
      LET sw     == SrcWindow(src, p, w)
          data   == ReadWindow(src, sw)
          valid  == ValidMask(src, data)
          data2  == IF ft = "extent" THEN Binarize(data, valid) ELSE data
          any    == \E q \in DOMAIN data : valid[q]
          nodata == Nodata(ft)
      IN  IF DOMAIN data = {}
          THEN [out_data |-> out, has_valid_data |-> hv]
          ELSE IF ~any
          THEN [out_data |-> out, has_valid_data |-> hv]
          ELSE IF DOMAIN data # DOMAIN out
          THEN [out_data |-> out, has_valid_data |-> TRUE]
          ELSE [out_data |->
                   [q \in DOMAIN out |->
                       IF valid[q] THEN MergeValid(out[q], data2[q], nodata)
                                   ELSE out[q]],
                has_valid_data |-> TRUE]

\* The merge raises inside the try block: the window read holds valid
\* samples and has another shape than the block's buffer.
ShapeMismatch(out, src, p, w) ==
    /\ ~NoOverlap(src, p, w)
    /\ LET data == ReadWindow(src, SrcWindow(src, p, w))
       IN  /\ DOMAIN data # {}
           /\ \E q \in DOMAIN data : ValidMask(src, data)[q]
           /\ DOMAIN data # DOMAIN out

\* np.full((window.height, window.width), nodata)
EmptyBlock(w, ft) == [q \in Pixels(w.height, w.width) |-> Nodata(ft)]

\* After the sources: in extent mode, when some source held valid data,
\* every valid positive sample of the buffer becomes 1.
ClampExtent(out, hv, ft) ==
    IF ft = "extent" /\ hv
    THEN [q \in DOMAIN out |->
             IF out[q] # Nodata(ft) /\ out[q] > 0 THEN 1 ELSE out[q]]
    ELSE out

\* dst.write(out_data, window=window, indexes=1)
WriteWindow(data, w, out) ==
    [q \in DOMAIN data |->
        IF /\ q[1] >= w.row_off /\ q[1] < w.row_off + w.height
           /\ q[2] >= w.col_off /\ q[2] < w.col_off + w.width
        THEN out[<<q[1] - w.row_off, q[2] - w.col_off>>]
        ELSE data[q]]

(***************************************************************************)
(* The clip: rasterio.mask.mask(src, geoms, crop=False, nodata=nodata)     *)
(* keeps the samples under the geometries' footprint and sets the others   *)
(* to nodata.                                                              *)
(***************************************************************************)
\* Mutant of MaskOutside: mask called without nodata= fills the outside with 0.
MaskOutsideZero(data, footprint, nodata) ==
    [q \in DOMAIN data |-> IF q \in footprint THEN data[q] ELSE 0]

MaskOutside(data, footprint, nodata) ==
    [q \in DOMAIN data |-> IF q \in footprint THEN data[q] ELSE nodata]

\* The footprints the geometries read at clip time may have on the grid:
\* the pixels of a rectangle (the empty one included).
Footprints(p) ==
    { {q \in Pixels(p.height, p.width) :
          /\ q[1] >= r0 /\ q[1] < r1 /\ q[2] >= c0 /\ q[2] < c1} :
      r0 \in 0 .. p.height, r1 \in 0 .. p.height,
      c0 \in 0 .. p.width, c1 \in 0 .. p.width }

(***************************************************************************)
(* The state of one call of mosaic_rasters.                                *)
(***************************************************************************)
VARIABLES
    fim_type,        \* the fim_type argument
    raster_paths,    \* the files the raster_paths argument names, in order
    clip_geometry,   \* "None", or "path": a vector file to clip with
    pc,              \* where the call is
    src_files,       \* the handles opened so far: indices into raster_paths
    closed,          \* the handles closed so far
    profile,         \* the output profile, once planned
    dst_exists,      \* whether a file exists at output_path
    dst_data,        \* its samples
    idx,             \* the block under way: an index into the block windows
    k,               \* the source under way within the block
    out_data,        \* the block's buffer
    has_valid_data,  \* the block's flag
    unclipped,       \* the samples the block loop left, kept for reference
    footprint,       \* the footprint the clip used, kept for reference
    raised,          \* "" or the error the call is raising
    warned,          \* whether the call has printed a warning
    inv,             \* the calls of hand_inundator.inundate, by their id
    fs               \* the files those calls write: path |-> content

vars == <<fim_type, raster_paths, clip_geometry, pc, src_files, closed,
          profile, dst_exists, dst_data, idx, k, out_data, has_valid_data,
          unclipped, footprint, raised, warned, inv, fs>>

\* The state of the inundator's calls; no call of mosaic_rasters touches it.
inundator == <<inv, fs>>

\* No call of inundate is under way and no file of one exists.
InundatorIdle == inv = <<>> /\ fs = <<>>

NoData == [q \in {} |-> 0]

(***************************************************************************)
(* The inputs drawn for a run.  A file is one row of MaxW pixels at most,  *)
(* holding one value throughout, placed a whole number of its own pixels   *)
(* from the origin: inputs of one resolution lie on one grid.  Files of    *)
(* the reference CRS and resolution take every sample value and nodata     *)
(* declaration; files of another CRS or resolution, which no run           *)
(* composites with them, take one.                                         *)
(***************************************************************************)
RasterFile(crs, res, x0, w, nd, v) ==
    [crs |-> crs, res |-> res, left |-> x0 * res[1], top |-> 0,
     width |-> w, height |-> 1, nodata |-> nd,
     data |-> [q \in Pixels(1, w) |-> v]]

\* Sample values: a value below the depth sentinel, the sentinel itself, 0
\* and a positive value; for extent, a negative value, 0, 1 and the sentinel.
SrcValues(ft) == IF ft = "depth" THEN {DepthNodata - 1, DepthNodata, 0, 2}
                                 ELSE {-3, 0, 1, ExtentNodata}

\* Declared nodata: none, the output sentinel, or another value.
SrcNodata(ft) == {{}, {Nodata(ft)}, {0}}

RefCRS == "EPSG:5070"
RefRes == <<2, 3>>
CRSs == {RefCRS, "EPSG:4326"}
Resolutions == {RefRes, <<3, 3>>}

ValidInputs(ft) ==
    { RasterFile(RefCRS, RefRes, x0, w, nd, v) :
        x0 \in 0 .. MaxOff, w \in 1 .. MaxW,
        nd \in SrcNodata(ft), v \in SrcValues(ft) }

OtherInputs(ft) ==
    { RasterFile(c[1], c[2], x0, w, {Nodata(ft)}, 2) :
        x0 \in 0 .. MaxOff, w \in 1 .. MaxW,
        c \in (CRSs \X Resolutions) \ {<<RefCRS, RefRes>>} }

Inputs(ft) == ValidInputs(ft) \cup OtherInputs(ft)

\* Lists of one or two files of S.
Lists(S) == { <<a>> : a \in S } \cup { <<a, b>> : a \in S, b \in S }

InitWith(ft, paths, clip) ==
    /\ fim_type = ft
    /\ raster_paths = paths
    /\ clip_geometry = clip
    /\ pc = "open"
    /\ src_files = <<>>
    /\ closed = {}
    /\ profile = NoProfile
    /\ dst_exists = FALSE
    /\ dst_data = NoData
    /\ idx = 0
    /\ k = 0
    /\ out_data = NoData
    /\ has_valid_data = FALSE
    /\ unclipped = NoData
    /\ footprint = {}
    /\ raised = ""
    /\ warned = FALSE
    /\ InundatorIdle

Init ==
    \E ft \in FimTypes :
      \E paths \in Lists(Inputs(ft)) :
        \E clip \in {"None", "path"} :
          InitWith(ft, paths, clip)

(***************************************************************************)
(* Actions.                                                                *)
(***************************************************************************)
Files == [i \in 1 .. Len(src_files) |-> raster_paths[src_files[i]]]

\* Mutant of AfterRaise: no finally clause, the error leaves the call.
AfterRaiseNoFinally == "failed"

\* Where an error raised inside the try block goes: the finally clause.
AfterRaise == "finally"

Raise(err) ==
    /\ raised' = err
    /\ pc' = AfterRaise

\* for path in raster_paths: src = rasterio.open(path); src_files.append(src)
OpenSource ==
    /\ pc = "open"
    /\ Len(src_files) < Len(raster_paths)
    /\ src_files' = Append(src_files, Len(src_files) + 1)
    /\ pc' = IF Len(src_files) + 1 = Len(raster_paths) THEN "check" ELSE "open"
    /\ UNCHANGED <<inundator, warned, fim_type, raster_paths, clip_geometry, closed, profile,
                   dst_exists, dst_data, idx, k, out_data, has_valid_data,
                   unclipped, footprint, raised>>

\* rasterio.open(path) raises: the file cannot be read.
OpenSourceFails ==
    /\ pc = "open"
    /\ Len(src_files) < Len(raster_paths)
    /\ Raise("RasterioIOError")
    /\ UNCHANGED <<inundator, warned, fim_type, raster_paths, clip_geometry, src_files, closed,
                   profile, dst_exists, dst_data, idx, k, out_data,
                   has_valid_data, unclipped, footprint>>

\* The CRS check, the bounds, the resolution check, the dimensions and the
\* profile.
CheckAndPlan ==
    /\ pc = "check"
    /\ IF ~SameCRS(Files)
       THEN Raise("ValueError: CRS") /\ UNCHANGED profile
       ELSE IF ~SameRes(Files)
       THEN Raise("ValueError: resolution") /\ UNCHANGED profile
       ELSE /\ profile' = MakeProfile(Files, fim_type)
            /\ pc' = "create"
            /\ UNCHANGED raised
    /\ UNCHANGED <<inundator, warned, fim_type, raster_paths, clip_geometry, src_files, closed,
                   dst_exists, dst_data, idx, k, out_data, has_valid_data,
                   unclipped, footprint>>

\* Mutant of EnterBlock: the buffer and the flag of the block before are
\* carried over.
EnterBlockCarry(n) ==
    /\ idx' = n
    /\ k' = 1
    /\ out_data' = [q \in DOMAIN EmptyBlock(BlockWindows(profile)[n], fim_type) |->
                       IF q \in DOMAIN out_data THEN out_data[q] ELSE Nodata(fim_type)]
    /\ has_valid_data' = has_valid_data

\* Entering block n: the buffer filled with nodata, the flag cleared, the
\* first source next.
EnterBlock(n) ==
    /\ idx' = n
    /\ k' = 1
    /\ out_data' = EmptyBlock(BlockWindows(profile)[n], fim_type)
    /\ has_valid_data' = FALSE

\* os.makedirs, rasterio.open(output_path, "w", **profile): the file is
\* created, every sample of it nodata until written.
CreateDst ==
    /\ pc = "create"
    /\ dst_exists' = TRUE
    /\ dst_data' = [q \in Pixels(profile.height, profile.width) |-> profile.nodata]
    /\ EnterBlock(1)
    /\ pc' = "source"
    /\ UNCHANGED <<inundator, warned, fim_type, raster_paths, clip_geometry, src_files, closed,
                   profile, unclipped, footprint, raised>>

\* The directory or the file cannot be created.
CreateDstFails ==
    /\ pc = "create"
    /\ Raise("OSError")
    /\ UNCHANGED <<inundator, warned, fim_type, raster_paths, clip_geometry, src_files, closed,
                   profile, dst_exists, dst_data, idx, k, out_data,
                   has_valid_data, unclipped, footprint>>

\* The source loop goes on with the next source, or past its end.
NextSource ==
    /\ k' = k + 1
    /\ pc' = IF k = Len(src_files) THEN "write" ELSE "source"

\* One turn of "for src in src_files".
ReadSource ==
    /\ pc = "source"
    /\ LET r == CompositeSource(out_data, has_valid_data, Files[k], profile,
                                BlockWindows(profile)[idx], fim_type)
       IN  /\ out_data' = r.out_data
           /\ has_valid_data' = r.has_valid_data
    /\ warned' = (warned \/ ShapeMismatch(out_data, Files[k], profile,
                                           BlockWindows(profile)[idx]))
    /\ NextSource
    /\ UNCHANGED <<inundator, fim_type, raster_paths, clip_geometry, src_files, closed,
                   profile, dst_exists, dst_data, idx, unclipped, footprint,
                   raised>>

\* The extent clamp and dst.write of the block; then the next block, or the
\* end of the "with" that closes dst.
WriteBlock ==
    /\ pc = "write"
    /\ LET w    == BlockWindows(profile)[idx]
           data == WriteWindow(dst_data, w,
                               ClampExtent(out_data, has_valid_data, fim_type))
       IN  /\ dst_data' = data
           /\ IF idx < Len(BlockWindows(profile))
              THEN /\ EnterBlock(idx + 1)
                   /\ pc' = "source"
                   /\ UNCHANGED unclipped
              ELSE /\ pc' = "clip"
                   /\ unclipped' = data
                   /\ UNCHANGED <<idx, k, out_data, has_valid_data>>
    /\ UNCHANGED <<inundator, warned, fim_type, raster_paths, clip_geometry, src_files, closed,
                   profile, dst_exists, footprint, raised>>

\* dst.write raises: the "with" closes dst and the error goes on.
WriteBlockFails ==
    /\ pc = "write"
    /\ Raise("RasterioIOError: write")
    /\ UNCHANGED <<inundator, warned, fim_type, raster_paths, clip_geometry, src_files, closed,
                   profile, dst_exists, dst_data, idx, k, out_data,
                   has_valid_data, unclipped, footprint>>

\* if clip_geometry is not None: skipped.
SkipClip ==
    /\ pc = "clip"
    /\ clip_geometry = "None"
    /\ pc' = "finally"
    /\ UNCHANGED <<inundator, warned, fim_type, raster_paths, clip_geometry, src_files, closed,
                   profile, dst_exists, dst_data, idx, k, out_data,
                   has_valid_data, unclipped, footprint, raised>>

\* The clip: the geometries are read from the file, the raster is masked
\* and written back.
ApplyClip ==
    /\ pc = "clip"
    /\ clip_geometry # "None"
    /\ \E fp \in Footprints(profile) :
         /\ footprint' = fp
         /\ dst_data' = MaskOutside(dst_data, fp, Nodata(fim_type))
    /\ pc' = "finally"
    /\ UNCHANGED <<inundator, warned, fim_type, raster_paths, clip_geometry, src_files, closed,
                   profile, dst_exists, idx, k, out_data, has_valid_data,
                   unclipped, raised>>

\* The output cannot be reopened, the vector file cannot be opened, or the
\* write of the masked raster raises.
ClipFails ==
    /\ pc = "clip"
    /\ clip_geometry # "None"
    /\ \E err \in {"RasterioIOError: r+", "DriverError", "RasterioIOError: write"} :
         Raise(err)
    /\ UNCHANGED <<inundator, warned, fim_type, raster_paths, clip_geometry, src_files, closed,
                   profile, dst_exists, dst_data, idx, k, out_data,
                   has_valid_data, unclipped, footprint>>

\* finally: for src in src_files: src.close(); then the return, or the
\* error going on to the caller.
Finally ==
    /\ pc = "finally"
    /\ closed' = {src_files[i] : i \in 1 .. Len(src_files)}
    /\ pc' = IF raised = "" THEN "returned" ELSE "failed"
    /\ UNCHANGED <<inundator, warned, fim_type, raster_paths, clip_geometry, src_files, profile,
                   dst_exists, dst_data, idx, k, out_data, has_valid_data,
                   unclipped, footprint, raised>>

Next ==
    \/ OpenSource
    \/ OpenSourceFails
    \/ CheckAndPlan
    \/ CreateDst
    \/ CreateDstFails
    \/ ReadSource
    \/ WriteBlock
    \/ WriteBlockFails
    \/ SkipClip
    \/ ApplyClip
    \/ ClipFails
    \/ Finally

Spec == Init /\ [][Next]_vars

(***************************************************************************)
(* The block loop as a function of the opened files: what the loop leaves  *)
(* in the destination when no error interrupts it.                         *)
(***************************************************************************)
RECURSIVE FoldSources(_, _, _, _, _, _)
FoldSources(r, files, i, p, w, ft) ==
    IF i > Len(files) THEN r
    ELSE FoldSources(CompositeSource(r.out_data, r.has_valid_data, files[i], p, w, ft),
                     files, i + 1, p, w, ft)

BlockResult(files, p, w, ft) ==
    LET r == FoldSources([out_data |-> EmptyBlock(w, ft), has_valid_data |-> FALSE],
                         files, 1, p, w, ft)
    IN  ClampExtent(r.out_data, r.has_valid_data, ft)

\* The block that holds pixel q.
BlockOf(p, q) ==
    CeilDiv(p.width, BlockSize) * (q[1] \div BlockSize) + (q[2] \div BlockSize) + 1

MosaicOf(files, ft) ==
    LET p  == MakeProfile(files, ft)
        bw == BlockWindows(p)
        br == [n \in DOMAIN bw |-> BlockResult(files, p, bw[n], ft)]
    IN  [q \in Pixels(p.height, p.width) |->
            LET n == BlockOf(p, q)
            IN  br[n][<<q[1] - bw[n].row_off, q[2] - bw[n].col_off>>]]

(***************************************************************************)
(* Vocabulary of the properties.                                           *)
(***************************************************************************)
\* The block loop has ended and the destination has been closed.
LoopDone == pc \in {"clip", "finally", "returned", "failed"} /\ DOMAIN unclipped # {}

Terminated == pc \in {"returned", "failed"}

GridPixels == Pixels(profile.height, profile.width)

\* The ground rectangle of output pixel q lies inside the source's extent
\* (both sides scaled by the output's size in pixels).
Covers(src, p, q) ==
    LET b  == SrcBounds(src)
        xl == p.left * p.width + q[2] * (p.right - p.left)
        xr == p.left * p.width + (q[2] + 1) * (p.right - p.left)
        yt == p.top * p.height - q[1] * (p.top - p.bottom)
        yb == p.top * p.height - (q[1] + 1) * (p.top - p.bottom)
    IN  /\ b.left * p.width <= xl /\ xr <= b.right * p.width
        /\ yb >= b.bottom * p.height /\ yt <= b.top * p.height

\* The source's sample under output pixel q, for a source that covers it.
SampleAt(src, p, q) ==
    LET xl == p.left * p.width + q[2] * (p.right - p.left)
        yt == p.top * p.height - q[1] * (p.top - p.bottom)
    IN  src.data[<<(src.top * p.height - yt) \div (p.height * src.res[2]),
                   (xl - src.left * p.width) \div (p.width * src.res[1])>>]

IsValid(src, v) == v \notin src.nodata

\* The inputs that cover q with a valid sample.
ValidAt(files, p, q) ==
    { i \in 1 .. Len(files) :
        Covers(files[i], p, q) /\ IsValid(files[i], SampleAt(files[i], p, q)) }

\* What a valid sample stands for in the mosaic.
Contribution(ft, v) == IF ft = "extent" THEN (IF v # 0 THEN 1 ELSE 0) ELSE v

\* The maximum of the valid values over the inputs covering q, the nodata
\* sentinel when there is none.
ExpectedPixel(files, ft, p, q) ==
    LET V == { Contribution(ft, SampleAt(files[i], p, q)) : i \in ValidAt(files, p, q) }
    IN  IF V = {} THEN Nodata(ft) ELSE SetMax(V)

\* All orderings of a list.
Orderings(seq) ==
    LET n == Len(seq)
    IN  { [i \in 1 .. n |-> seq[f[i]]] :
            f \in { g \in [1 .. n -> 1 .. n] : \A a, b \in 1 .. n : g[a] = g[b] => a = b } }

\* The run's own result is the function of its inputs defined above.
LoopComputesMosaic == LoopDone => unclipped = MosaicOf(raster_paths, fim_type)

(***************************************************************************)
(* C1.  For inputs of one CRS and one resolution, every pixel of the       *)
(* unclipped output is the maximum of the valid values (binarized in       *)
(* extent mode) of the inputs whose extent covers the pixel, and the       *)
(* output nodata when no input covers it with a valid value.               *)
(***************************************************************************)
C1_MaxOfCoveringValid ==
    LoopDone =>
        \A q \in GridPixels :
            unclipped[q] = ExpectedPixel(raster_paths, fim_type, profile, q)

(***************************************************************************)
(* C2.  Compositing is order-independent: every permutation of the inputs  *)
(* gives the same value at every output pixel.                             *)
(***************************************************************************)
C2_OrderIndependent ==
    LoopDone =>
        \A perm \in Orderings(raster_paths) :
            MosaicOf(perm, fim_type) = unclipped

(***************************************************************************)
(* C3.  Compositing is idempotent under duplication: the mosaic of <<A, A>>*)
(* has the pixels of the mosaic of <<A>>, in either mode.                  *)
(***************************************************************************)
C3_IdempotentUnderDuplication ==
    LoopDone =>
        /\ Len(raster_paths) = 1 =>
              MosaicOf(<<raster_paths[1], raster_paths[1]>>, fim_type) = unclipped
        /\ (Len(raster_paths) = 2 /\ raster_paths[1] = raster_paths[2]) =>
              unclipped = MosaicOf(<<raster_paths[1]>>, fim_type)

\* A run of <<A, A>> has ended its loop with a valid pixel in the output.
C3_Witness ==
    /\ LoopDone
    /\ Len(raster_paths) = 2
    /\ raster_paths[1] = raster_paths[2]
    /\ \E q \in GridPixels : unclipped[q] \notin {Nodata(fim_type), 0}

(***************************************************************************)
(* C4.  In extent mode every output pixel is 0, 1 or 255.  It is 1 exactly *)
(* when some input covers it with a valid nonzero sample (of any sign, 255 *)
(* included); it is 0 or 1 when some input covers it with a valid sample;  *)
(* and it stays 255 when every input either is nodata there or does not    *)
(* cover it and declares a nodata.                                         *)
(***************************************************************************)
C4_ExtentBinarized ==
    (LoopDone /\ fim_type = "extent") =>
        \A q \in GridPixels :
            LET files == raster_paths
                va    == ValidAt(files, profile, q)
            IN  /\ unclipped[q] \in {0, 1, ExtentNodata}
                /\ unclipped[q] = 1 <=>
                      \E i \in va : SampleAt(files[i], profile, q) # 0
                /\ va # {} => unclipped[q] \in {0, 1}
                /\ (\A i \in 1 .. Len(files) :
                       IF Covers(files[i], profile, q)
                       THEN ~IsValid(files[i], SampleAt(files[i], profile, q))
                       ELSE ~NoNodata(files[i]))
                   => unclipped[q] = ExtentNodata

\* An extent run ended its loop with a pixel that is 1 from a negative or
\* 255-valued valid sample, a pixel that is 0 and a pixel that is nodata
\* under a source's nodata sample.
C4_Witness ==
    /\ LoopDone
    /\ fim_type = "extent"
    /\ \E q \in GridPixels :
          /\ unclipped[q] = 1
          /\ \E i \in ValidAt(raster_paths, profile, q) :
                SampleAt(raster_paths[i], profile, q) \in {-3, ExtentNodata}
    /\ \E q \in GridPixels :
          /\ unclipped[q] = ExtentNodata
          /\ \E i \in 1 .. Len(raster_paths) :
                /\ Covers(raster_paths[i], profile, q)
                /\ ~IsValid(raster_paths[i], SampleAt(raster_paths[i], profile, q))

(***************************************************************************)
(* C5.  The clip only removes data: once the block loop has ended, every   *)
(* pixel of the file that is not nodata was not nodata in the unclipped    *)
(* output and holds its unclipped value.                                   *)
(***************************************************************************)
C5_ClipOnlyRemoves ==
    LoopDone =>
        \A q \in GridPixels :
            dst_data[q] # Nodata(fim_type) =>
                /\ unclipped[q] # Nodata(fim_type)
                /\ dst_data[q] = unclipped[q]

\* A clipped run returned with one valid pixel removed and another kept.
C5_Witness ==
    /\ pc = "returned"
    /\ clip_geometry = "path"
    /\ \E q \in GridPixels :
          unclipped[q] # Nodata(fim_type) /\ dst_data[q] = Nodata(fim_type)
    /\ \E q \in GridPixels : dst_data[q] # Nodata(fim_type)

(***************************************************************************)
(* C6.  When the inputs do not share one CRS or one resolution the run     *)
(* fails and no file is created at output_path: the checks run once every  *)
(* input is open and before the destination is created.                    *)
(***************************************************************************)
CRSDiffer == \E i, j \in 1 .. Len(raster_paths) : raster_paths[i].crs # raster_paths[j].crs

ResDiffer == \E i, j \in 1 .. Len(raster_paths) : raster_paths[i].res # raster_paths[j].res

C6_MismatchWritesNothing ==
    /\ (CRSDiffer \/ ResDiffer) =>
          /\ ~dst_exists
          /\ DOMAIN dst_data = {}
          /\ pc # "returned"
    /\ pc = "check" => Len(src_files) = Len(raster_paths)
    /\ raised \in {"ValueError: CRS", "ValueError: resolution"} =>
          Len(src_files) = Len(raster_paths) /\ ~dst_exists

\* A run of two inputs of one CRS and two resolutions has failed on the
\* resolution check.
C6_Witness ==
    /\ pc = "failed"
    /\ raised = "ValueError: resolution"
    /\ ~CRSDiffer
    /\ ResDiffer
    /\ ~dst_exists

(***************************************************************************)
(* C7.  On a failure after the destination has been created, no file       *)
(* remains at output_path.                                                 *)
(***************************************************************************)
C7_NoOutputLeftOnFailure == pc = "failed" => ~dst_exists

(***************************************************************************)
(* C8.  When the run ends, on whatever path, every input handle it opened  *)
(* is closed; and no handle is closed while blocks are still composited.   *)
(***************************************************************************)
Opened == {src_files[i] : i \in 1 .. Len(src_files)}

C8_HandlesClosed ==
    /\ Terminated => closed = Opened
    /\ pc \in {"open", "check", "create", "source", "write"} => closed = {}
    /\ closed # {} /\ raised = "" => LoopDone

\* A run has failed opening its second input and closed the first.
C8_Witness ==
    /\ pc = "failed"
    /\ raised = "RasterioIOError"
    /\ Len(raster_paths) = 2
    /\ Opened = {1}
    /\ closed = {1}

(***************************************************************************)
(* The run up to the output profile, over inputs of one resolution placed  *)
(* anywhere: their corners need not be whole pixels apart.                 *)
(***************************************************************************)
\* Largest offset (in ground units) of an input's corner.
MaxShift == 3

GridFile(left, top, w, h) ==
    [crs |-> RefCRS, res |-> RefRes, left |-> left, top |-> top,
     width |-> w, height |-> h, nodata |-> {},
     data |-> [q \in Pixels(h, w) |-> 0]]

GridInputs ==
    { GridFile(left, top, w, h) :
        left \in 0 .. MaxShift, top \in 0 .. MaxShift,
        w \in 1 .. MaxW, h \in 1 .. MaxW }

InitGrid ==
    \E ft \in FimTypes :
      \E paths \in Lists(GridInputs) :
        InitWith(ft, paths, "None")

NextGrid == OpenSource \/ CheckAndPlan

SpecGrid == InitGrid /\ [][NextGrid]_vars

\* n = floor(e / r + 1/2), for r > 0
IsRoundHalfUp(n, e, r) == 2 * r * n <= 2 * e + r /\ 2 * e + r < 2 * r * (n + 1)

\* The planned extent is the union of the inputs' extents and the planned
\* dimensions are floor(extent / res + 0.5) with the first input's resolution.
UnionAndDims ==
    LET I == 1 .. Len(raster_paths)
        b == [i \in I |-> SrcBounds(raster_paths[i])]
        r == raster_paths[1].res
    IN  /\ \A i \in I : /\ profile.left <= b[i].left /\ profile.right >= b[i].right
                        /\ profile.bottom <= b[i].bottom /\ profile.top >= b[i].top
        /\ \E i \in I : profile.left = b[i].left
        /\ \E i \in I : profile.right = b[i].right
        /\ \E i \in I : profile.bottom = b[i].bottom
        /\ \E i \in I : profile.top = b[i].top
        /\ IsRoundHalfUp(profile.width, profile.right - profile.left, r[1])
        /\ IsRoundHalfUp(profile.height, profile.top - profile.bottom, r[2])

\* The output's pixel size, extent / dimension per axis, is the first
\* input's resolution.
PixelSizeIsRes ==
    /\ profile.width * raster_paths[1].res[1] = profile.right - profile.left
    /\ profile.height * raster_paths[1].res[2] = profile.top - profile.bottom

\* The extent and the dimensions alone: these the plan always satisfies.
PlanHasUnionAndDims == pc = "create" => UnionAndDims

(***************************************************************************)
(* C9.  The output grid's extent is the union of the inputs' extents, its  *)
(* dimensions are floor(extent / res + 0.5) per axis with the first        *)
(* input's resolution, and its pixel size is that resolution.              *)
(***************************************************************************)
C9_GridPlan == pc = "create" => (UnionAndDims /\ PixelSizeIsRes)

(***************************************************************************)
(* The scenario of the mock data: four co-registered rasters of three by   *)
(* three tiles, each with its own nodata, its centre tile nodata, one      *)
(* corner tile 1 and the rest 0, mosaicked in extent mode in any order.    *)
(***************************************************************************)
ScenarioSize == 3 * BlockSize

InTile(q, ti, tj) ==
    /\ q[1] >= ti * BlockSize /\ q[1] < (ti + 1) * BlockSize
    /\ q[2] >= tj * BlockSize /\ q[2] < (tj + 1) * BlockSize

\* corner_tiles: top-left, top-right, bottom-left, bottom-right
CornerTile == <<(<<0, 0>>), (<<0, 2>>), (<<2, 0>>), (<<2, 2>>)>>

\* nodata_values
ScenarioNodata == <<255, 254, 253, 252>>

ScenarioRaster(i) ==
    [crs |-> "EPSG:4326", res |-> <<1, 1>>, left |-> 0, top |-> 45000,
     width |-> ScenarioSize, height |-> ScenarioSize,
     nodata |-> {ScenarioNodata[i]},
     data |-> [q \in Pixels(ScenarioSize, ScenarioSize) |->
                  IF InTile(q, CornerTile[i][1], CornerTile[i][2]) THEN 1
                  ELSE IF InTile(q, 1, 1) THEN ScenarioNodata[i]
                  ELSE 0]]

InitScenario ==
    \E paths \in Orderings([i \in 1 .. 4 |-> ScenarioRaster(i)]) :
        InitWith("extent", paths, "None")

NextScenario ==
    \/ OpenSource
    \/ CheckAndPlan
    \/ CreateDst
    \/ ReadSource
    \/ WriteBlock
    \/ SkipClip
    \/ Finally

SpecScenario == InitScenario /\ [][NextScenario]_vars

IsCorner(q) == \E i \in 1 .. 4 : InTile(q, CornerTile[i][1], CornerTile[i][2])

SharedExtent ==
    /\ profile.left = 0 /\ profile.top = 45000
    /\ profile.right = ScenarioSize /\ profile.bottom = 45000 - ScenarioSize
    /\ profile.width = ScenarioSize /\ profile.height = ScenarioSize

(***************************************************************************)
(* C10, as stated.  The mosaic of the four rasters has its four corner     *)
(* tiles 1, its centre tile 0 and the shared extent.                       *)
(***************************************************************************)
C10_CentreZero ==
    pc = "returned" =>
        /\ SharedExtent
        /\ \A q \in GridPixels :
              /\ IsCorner(q) => dst_data[q] = 1
              /\ InTile(q, 1, 1) => dst_data[q] = 0

(***************************************************************************)
(* C10, amended.  The mosaic of the four rasters has its four corner tiles *)
(* 1, its centre tile the output nodata 255 (every input is nodata there), *)
(* its four other tiles 0, and the shared extent.                          *)
(***************************************************************************)
C10_CentreNodata ==
    pc = "returned" =>
        /\ SharedExtent
        /\ \A q \in GridPixels :
              dst_data[q] = IF IsCorner(q) THEN 1
                            ELSE IF InTile(q, 1, 1) THEN ExtentNodata
                            ELSE 0

\* The scenario has returned with raster4 opened first.
C10_Witness ==
    /\ pc = "returned"
    /\ Len(raster_paths) = 4
    /\ raster_paths[1] = ScenarioRaster(4)
    /\ dst_exists
    /\ \E q \in GridPixels : dst_data[q] = 1

(***************************************************************************)
(* The block's ground rectangle against a source's extent, both sides      *)
(* scaled by the output's size in pixels: the rectangle lies outside the   *)
(* extent or shares no more than an edge or a corner with it.              *)
(***************************************************************************)
OutsideOrTouching(src, p, w) ==
    LET b  == SrcBounds(src)
        xl == p.left * p.width + w.col_off * (p.right - p.left)
        xr == p.left * p.width + (w.col_off + w.width) * (p.right - p.left)
        yt == p.top * p.height - w.row_off * (p.top - p.bottom)
        yb == p.top * p.height - (w.row_off + w.height) * (p.top - p.bottom)
    IN  \/ xr <= b.left * p.width
        \/ xl >= b.right * p.width
        \/ yt <= b.bottom * p.height
        \/ yb >= b.top * p.height

(***************************************************************************)
(* C11.  The disjointness test is strict: a source whose extent the        *)
(* block's rectangle lies outside of, or only touches, changes no pixel of *)
(* the block's buffer, whether or not the source declares a nodata.        *)
(***************************************************************************)
C11_DisjointSourceChangesNothing ==
    [][(pc = "source" /\ OutsideOrTouching(Files[k], profile, BlockWindows(profile)[idx]))
          => out_data' = out_data]_vars

(***************************************************************************)
(* The run up to the resolution check, over inputs of one CRS whose pixel  *)
(* sizes are written in millionths of a ground unit: a pixel size of one   *)
(* unit, one that differs from it in the last place (what round-off in a   *)
(* file's georeferencing leaves), and one twice as large.                  *)
(***************************************************************************)
FineResolutions == {<<1000000, 1000000>>, <<1000001, 1000000>>, <<2000000, 1000000>>}

ResInputs ==
    { RasterFile(RefCRS, r, x0, w, {}, 0) :
        r \in FineResolutions, x0 \in 0 .. MaxOff, w \in 1 .. MaxW }

InitRes ==
    \E paths \in Lists(ResInputs) :
        InitWith("depth", paths, "None")

NextRes == OpenSource \/ CheckAndPlan \/ Finally

SpecRes == InitRes /\ [][NextRes]_vars

Abs(a) == IF a >= 0 THEN a ELSE -a

\* Two pixel sizes differ by no more than a relative 1e-5 of the larger.
WithinTolerance(a, b) == Abs(a - b) <= Max2(a, b) \div 100000

\* Some pair of inputs has pixel sizes beyond the tolerance on some axis.
ResBeyondTolerance ==
    \E i, j \in 1 .. Len(raster_paths) :
        \E axis \in 1 .. 2 :
            ~WithinTolerance(raster_paths[i].res[axis], raster_paths[j].res[axis])

ReadSourceFails ==
    /\ pc = "source"
    /\ warned' = TRUE
    /\ NextSource
    /\ UNCHANGED <<inundator, fim_type, raster_paths, clip_geometry, src_files, closed,
                   profile, dst_exists, dst_data, idx, out_data,
                   has_valid_data, unclipped, footprint, raised>>

ReadInputs(ft) ==
    { RasterFile(RefCRS, RefRes, x0, w, {Nodata(ft)}, 2) :
        x0 \in 0 .. MaxOff, w \in 1 .. MaxW }

InitRead ==
    \E ft \in FimTypes :
      \E paths \in Lists(ReadInputs(ft)) :
        InitWith(ft, paths, "None")

NextRead ==
    \/ OpenSource
    \/ CheckAndPlan
    \/ CreateDst
    \/ ReadSource
    \/ ReadSourceFails
    \/ WriteBlock
    \/ SkipClip
    \/ Finally

SpecRead == InitRead /\ [][NextRead]_vars

(***************************************************************************)
(* C13.  Every failure is surfaced at once and aborts the run: after the   *)
(* read of a source's window has raised, the run is raising that error     *)
(* and is on its way out; it composites no further source or block and     *)
(* does not return the output path.                                        *)
(***************************************************************************)
C13_ReadErrorAborts ==
    warned => (raised # "" /\ pc \in {"finally", "failed"})

(***************************************************************************)
(* The call from its first line: the checks of the arguments, which stand  *)
(* before the try block, then the run.  The arguments drawn include an     *)
(* empty list and a fim_type that is neither "depth" nor "extent".         *)
(***************************************************************************)
\* Mutant of ArgsError: the list is not checked for emptiness.
ArgsErrorNoEmptyCheck(ft, paths) ==
    IF ft \notin FimTypes THEN "ValueError: fim_type" ELSE ""

\* The error the argument checks raise, "" when they raise none.
ArgsError(ft, paths) ==
    IF ft \notin FimTypes THEN "ValueError: fim_type"
    ELSE IF paths = <<>> THEN "ValueError: No rasters"
    ELSE ""

\* The checks raise outside the try block: the error leaves the call with
\* no finally clause to run.
CheckArgs ==
    /\ pc = "args"
    /\ LET err == ArgsError(fim_type, raster_paths)
       IN  IF err # ""
           THEN raised' = err /\ pc' = "failed"
           ELSE pc' = "open" /\ UNCHANGED raised
    /\ UNCHANGED <<inundator, warned, fim_type, raster_paths, clip_geometry, src_files,
                   closed, profile, dst_exists, dst_data, idx, k, out_data,
                   has_valid_data, unclipped, footprint>>

InitArgs ==
    /\ fim_type \in FimTypes \cup {"velocity"}
    /\ raster_paths \in {<<>>} \cup Lists(ReadInputs(fim_type))
    /\ clip_geometry = "None"
    /\ pc = "args"
    /\ src_files = <<>>
    /\ closed = {}
    /\ profile = NoProfile
    /\ dst_exists = FALSE
    /\ dst_data = NoData
    /\ idx = 0
    /\ k = 0
    /\ out_data = NoData
    /\ has_valid_data = FALSE
    /\ unclipped = NoData
    /\ footprint = {}
    /\ raised = ""
    /\ warned = FALSE
    /\ InundatorIdle

NextArgs ==
    \/ CheckArgs
    \/ OpenSource
    \/ CheckAndPlan
    \/ CreateDst
    \/ ReadSource
    \/ WriteBlock
    \/ SkipClip
    \/ Finally

SpecArgs == InitArgs /\ [][NextArgs]_vars

\* The error the claim expects of the arguments at hand.
ArgsErrorText ==
    IF fim_type \notin FimTypes THEN "ValueError: fim_type" ELSE "ValueError: No rasters"

(***************************************************************************)
(* C14.  A call with an empty raster_paths list, or with a fim_type other  *)
(* than "depth" and "extent", fails with an error before any input is      *)
(* opened and before the step that creates the output directory and file   *)
(* is reached.                                                             *)
(***************************************************************************)
C14_BadArgsFailEarly ==
    (fim_type \notin FimTypes \/ raster_paths = <<>>) =>
        /\ pc \in {"args", "failed"}
        /\ pc = "failed" => raised = ArgsErrorText
        /\ src_files = <<>>
        /\ closed = {}
        /\ ~dst_exists
        /\ DOMAIN dst_data = {}

\* A call with an empty list and a good fim_type has failed.
C14_Witness ==
    /\ pc = "failed"
    /\ raster_paths = <<>>
    /\ fim_type \in FimTypes
    /\ raised = "ValueError: No rasters"
    /\ src_files = <<>>
    /\ ~dst_exists

(***************************************************************************)
(* Runs over inputs of several rows and columns on one grid, placed inside *)
(* an area of MaxSide by MaxSide pixels, so that the output has one or     *)
(* two tiles per axis and a cut last tile.  Every sample holds a code of   *)
(* its place on the ground, so that a sample written to the wrong pixel    *)
(* shows.                                                                  *)
(***************************************************************************)
\* Largest width and height (in pixels) of the area the inputs lie in.
MaxSide == 3

BlockFile(x0, y0, w, h) ==
    [crs |-> RefCRS, res |-> RefRes,
     left |-> x0 * RefRes[1], top |-> -(y0 * RefRes[2]),
     width |-> w, height |-> h, nodata |-> {DepthNodata},
     data |-> [q \in Pixels(h, w) |-> 1 + (y0 + q[1]) * (MaxSide + 1) + x0 + q[2]]]

BlockInputs ==
    { BlockFile(c[1], c[2], c[3], c[4]) :
        c \in { d \in (0 .. MaxSide - 1) \X (0 .. MaxSide - 1)
                      \X (1 .. MaxSide) \X (1 .. MaxSide) :
                    d[1] + d[3] <= MaxSide /\ d[2] + d[4] <= MaxSide } }

InitBlocks ==
    \E ft \in FimTypes :
      \E paths \in Lists(BlockInputs) :
        InitWith(ft, paths, "None")

NextBlocks ==
    \/ OpenSource
    \/ CheckAndPlan
    \/ CreateDst
    \/ ReadSource
    \/ WriteBlock
    \/ SkipClip
    \/ Finally

SpecBlocks == InitBlocks /\ [][NextBlocks]_vars

\* Pixel q of the grid lies in window w.
InWindow(q, w) ==
    /\ q[1] >= w.row_off /\ q[1] < w.row_off + w.height
    /\ q[2] >= w.col_off /\ q[2] < w.col_off + w.width

\* The windows of the grid are tiles of a fixed edge in row-major order,
\* each inside the grid, the last of a row or column cut to it, and every
\* pixel lies in exactly one of them.
BlocksPartition(p) ==
    LET bw == BlockWindows(p)
    IN  /\ \A n \in DOMAIN bw :
              /\ bw[n].width \in 1 .. BlockSize
              /\ bw[n].height \in 1 .. BlockSize
              /\ bw[n].col_off >= 0 /\ bw[n].col_off + bw[n].width <= p.width
              /\ bw[n].row_off >= 0 /\ bw[n].row_off + bw[n].height <= p.height
              /\ bw[n].col_off % BlockSize = 0 /\ bw[n].row_off % BlockSize = 0
              /\ bw[n].width < BlockSize => bw[n].col_off + bw[n].width = p.width
              /\ bw[n].height < BlockSize => bw[n].row_off + bw[n].height = p.height
        /\ \A n, m \in DOMAIN bw :
              n < m => \/ bw[n].row_off < bw[m].row_off
                       \/ bw[n].row_off = bw[m].row_off /\ bw[n].col_off < bw[m].col_off
        /\ \A q \in Pixels(p.height, p.width) :
              Cardinality({n \in DOMAIN bw : InWindow(q, bw[n])}) = 1

InLoop == pc \in {"source", "write"}

\* The blocks whose write has been done.
WrittenBlocks == IF InLoop THEN 1 .. idx - 1 ELSE IF LoopDone THEN 1 .. idx ELSE {}

\* What the file holds follows the writes done: the block's result under a
\* written block, the nodata of the fresh file elsewhere.
WritesDone ==
    LET bw == BlockWindows(profile)
    IN  /\ idx \in DOMAIN bw
        /\ LoopDone => idx = Len(bw)
        /\ \A q \in GridPixels :
              LET n == BlockOf(profile, q)
                  W == {m \in WrittenBlocks : InWindow(q, bw[m])}
              IN  /\ Cardinality(W) = IF n \in WrittenBlocks THEN 1 ELSE 0
                  /\ LoopDone => Cardinality(W) = 1
                  /\ dst_data[q] =
                        IF n \in WrittenBlocks
                        THEN BlockResult(Files, profile, bw[n], fim_type)
                                 [<<q[1] - bw[n].row_off, q[2] - bw[n].col_off>>]
                        ELSE profile.nodata

\* A step of the loop that changes the file writes the window of the block
\* under way and nothing else, and the loop then leaves that block for the
\* next one or ends.
WriteStep ==
    (InLoop /\ dst_data' # dst_data) =>
        /\ pc = "write"
        /\ \A q \in GridPixels :
              ~InWindow(q, BlockWindows(profile)[idx]) => dst_data'[q] = dst_data[q]
        /\ \/ pc' = "source" /\ idx' = idx + 1
           \/ pc' = "clip" /\ idx' = idx /\ idx = Len(BlockWindows(profile))

(***************************************************************************)
(* C15.  The blocks of the loop partition the output grid: they do not     *)
(* overlap, each lies inside the grid with the edge blocks cut, together   *)
(* they cover every pixel, and the loop writes each of them once, so that  *)
(* at its end every pixel has been written exactly once.                   *)
(***************************************************************************)
C15_BlocksPartitionGrid ==
    /\ []((InLoop \/ LoopDone) => (BlocksPartition(profile) /\ WritesDone))
    /\ [][WriteStep /\ (idx' # idx => (pc = "write" /\ idx' = idx + 1) \/ pc = "create")]_vars

\* A run over a grid of three by three pixels, four blocks with the last
\* of each row and column cut, has returned with valid samples in the last.
C15_Witness ==
    /\ pc = "returned"
    /\ profile.width = 3 /\ profile.height = 3
    /\ Len(BlockWindows(profile)) = 4
    /\ BlockWindows(profile)[4].width = 1 /\ BlockWindows(profile)[4].height = 1
    /\ dst_data[<<2, 2>>] # profile.nodata
    /\ \E q \in GridPixels : dst_data[q] = profile.nodata

\* The file as created: every sample nodata.
FreshFile(p) == [q \in Pixels(p.height, p.width) |-> p.nodata]

\* The file after the blocks' results have been written in the order given,
\* from position i of the order on.
RECURSIVE WriteInOrder(_, _, _, _, _, _)
WriteInOrder(order, i, data, files, p, ft) ==
    IF i > Len(order) THEN data
    ELSE LET w == BlockWindows(p)[order[i]]
         IN  WriteInOrder(order, i + 1,
                          WriteWindow(data, w, BlockResult(files, p, w, ft)),
                          files, p, ft)

BlockOrders(p) == Orderings([n \in 1 .. Len(BlockWindows(p)) |-> n])

(***************************************************************************)
(* C16.  No block's result depends on another block.  At the entry of a    *)
(* block its buffer is all nodata and its flag is cleared; what the loop   *)
(* writes for a block is a function of the inputs and of that block alone; *)
(* and writing the blocks' results in any order leaves the raster the      *)
(* row-major pass leaves.                                                  *)
(***************************************************************************)
C16_BlocksIndependent ==
    /\ (pc = "source" /\ k = 1) =>
          /\ out_data = EmptyBlock(BlockWindows(profile)[idx], fim_type)
          /\ has_valid_data = FALSE
    /\ pc = "write" =>
          ClampExtent(out_data, has_valid_data, fim_type)
              = BlockResult(Files, profile, BlockWindows(profile)[idx], fim_type)
    /\ pc = "clip" =>
          \A order \in BlockOrders(profile) :
              WriteInOrder(order, 1, FreshFile(profile), Files, profile, fim_type)
                  = dst_data

\* The loop over four blocks and two inputs has ended, the first block all
\* valid and another block holding nodata.
C16_Witness ==
    /\ pc = "clip"
    /\ Len(raster_paths) = 2
    /\ Len(BlockWindows(profile)) = 4
    /\ \A q \in GridPixels : BlockOf(profile, q) = 1 => dst_data[q] # profile.nodata
    /\ \E q \in GridPixels : BlockOf(profile, q) # 1 /\ dst_data[q] = profile.nodata
    /\ \E q \in GridPixels : BlockOf(profile, q) # 1 /\ dst_data[q] # profile.nodata

(***************************************************************************)
(* C17.  With a clip geometry, the mask is applied to each block before    *)
(* the block is written: at no point of the run does the file hold a valid *)
(* value at a pixel outside the clip footprint.  The footprint is that of  *)
(* the geometries the clip read; what the file held when the block loop    *)
(* ended is one point of the run.                                          *)
(***************************************************************************)
C17_ClippedBeforeWrite ==
    (clip_geometry # "None" /\ raised = "" /\ pc \in {"finally", "returned"}) =>
        \A q \in GridPixels \ footprint : unclipped[q] = Nodata(fim_type)

\* Buffer pixel q holds present data: a source already composited into the
\* block under way had a valid sample there.
PresentAt(q) ==
    \E j \in 1 .. k - 1 :
        LET w    == BlockWindows(profile)[idx]
            data == ReadWindow(Files[j], SrcWindow(Files[j], profile, w))
        IN  q \in DOMAIN data /\ ValidMask(Files[j], data)[q]

(***************************************************************************)
(* C18.  Missing data never overwrites present data: while the sources of  *)
(* one block are composited, a buffer pixel that holds a valid value does  *)
(* not become the output nodata and its value does not decrease, whatever  *)
(* source follows.                                                         *)
(***************************************************************************)
C18_PresentNeverLost ==
    [][(pc = "source" /\ pc' \in {"source", "write"}) =>
          \A q \in DOMAIN out_data :
              PresentAt(q) =>
                  /\ out_data'[q] # Nodata(fim_type)
                  /\ out_data'[q] >= out_data[q]]_vars

(***************************************************************************)
(* hand_inundator/inundate.py: inundate builds a stage per catchment from  *)
(* the hydrotable and the forecast, thresholds the REM raster window by    *)
(* window into a temporary raster, and moves or uploads that raster to     *)
(* output_path.                                                            *)
(*                                                                         *)
(* A catchment holds its hydrotable_entries (HydroID |-> stage,            *)
(* discharge_cms, nwm_feature_id, lake_id) and its raster pair, both on    *)
(* one grid of one row.  A forecast is the list of the rows of the CSV.    *)
(* Stages are rationals num/den, den > 0; REM samples and discharges are   *)
(* integers.  Floating-point round-off is not modelled.                    *)
(***************************************************************************)
\* lake_id of a hydrotable entry that is no lake
LakeNone == -999
\* nodata of the inundation raster
HandNodata == 255

\* temp_output; a path is its name and whether it is an s3:// URL
TempOutput == [s3 |-> FALSE, name |-> "/tmp/temp_inundation.tif"]

\* np.interp(x, xp, fp), xp increasing: the ends' values outside the
\* curve, the chord's value inside.
Interp(x, xp, fp) ==
    LET n == Len(xp)
    IN  IF x <= xp[1] THEN [num |-> fp[1], den |-> 1]
        ELSE IF x >= xp[n] THEN [num |-> fp[n], den |-> 1]
        ELSE LET i == CHOOSE j \in 1 .. n - 1 : xp[j] <= x /\ x < xp[j + 1]
             IN  [num |-> fp[i] * (xp[i + 1] - xp[i])
                            + (x - xp[i]) * (fp[i + 1] - fp[i]),
                  den |-> xp[i + 1] - xp[i]]

\* The rows of the forecast that the inner merge joins to hydrotable entry e.
MatchingRows(e, forecast) ==
    {r \in 1 .. Len(forecast) : forecast[r].feature_id = e.nwm_feature_id}

\* The HydroIDs of the merged frame: the entries with lake_id == -999 that
\* a forecast row matches.
MergedIds(entries, forecast) ==
    {h \in DOMAIN entries :
        entries[h].lake_id = LakeNone /\ MatchingRows(entries[h], forecast) # {}}

\* stage_map: per HydroID of the merged frame, the rating curve read at the
\* discharge of the group's first row.
StageMap(entries, forecast) ==
    [h \in MergedIds(entries, forecast) |->
        LET first == SetMin(MatchingRows(entries[h], forecast))
        IN  Interp(forecast[first].discharge,
                   entries[h].discharge_cms, entries[h].stage)]

\* Mutant of RemValid: a REM sample of 0 is taken for invalid.
RemValidPositive(v) == v > 0

\* valid_mask = rem_win >= 0
RemValid(v) == v >= 0

\* rem <= stage_value, the stage a rational
AtOrBelow(v, stage) == v * stage.den <= stage.num

\* The inundation array of one window: zeros, then 1 where the REM sample
\* is valid, the catchment id is a key of stage_map and the sample is at or
\* below that id's stage.
InundateWindow(rem, cat, w, stages) ==
    [q \in Pixels(w.height, w.width) |->
        LET g == <<w.row_off + q[1], w.col_off + q[2]>>
        IN  IF /\ RemValid(rem[g])
               /\ cat[g] \in DOMAIN stages
               /\ AtOrBelow(rem[g], stages[cat[g]])
            THEN 1 ELSE 0]

\* rem.profile, as far as the run depends on it.
HandProfile(catchment) ==
    [width |-> catchment.width, height |-> 1, nodata |-> HandNodata]

(***************************************************************************)
(* Files.  A path holds nothing, a file that was there before the call, a  *)
(* raster, or the cut-off copy of one.  A raster has its samples, the      *)
(* windows written to it so far, and whether a dataset still has it open   *)
(* for writing.                                                            *)
(***************************************************************************)
Absent == [kind |-> "absent"]
OldFile == [kind |-> "old"]
Truncated == [kind |-> "truncated"]

\* rasterio.open(temp_output, "w", **profile) by call i: every sample reads
\* as nodata until written.  owner is the call whose dataset dst the file
\* is; the file stays that dataset's file wherever a rename takes it.
FreshRaster(p, i) ==
    [kind |-> "raster", data |-> FreshFile(p), written |-> {}, open |-> TRUE,
     owner |-> i]

\* The paths at which the file behind call i's open dataset dst is found:
\* temp_output, the path another call has renamed it to, or none once
\* another call has replaced or copied and removed it.
OwnPaths(i) ==
    {path \in DOMAIN fs :
        fs[path].kind = "raster" /\ fs[path].open /\ fs[path].owner = i}

(***************************************************************************)
(* The state of the calls of inundate.  inv[i] is call i: its arguments,   *)
(* where it is (pc), its stage_map, the window under way (win) and the     *)
(* error it raised.  fs is shared by the calls.                            *)
(***************************************************************************)
\* The variables of mosaic_rasters; no call of inundate touches them.
mosaicker ==
    <<fim_type, raster_paths, clip_geometry, pc, src_files, closed, profile,
      dst_exists, dst_data, idx, k, out_data, has_valid_data, unclipped,
      footprint, raised, warned>>

\* No call of mosaic_rasters is under way.
MosaickerIdle ==
    /\ fim_type = "depth"
    /\ raster_paths = <<>>
    /\ clip_geometry = "None"
    /\ pc = "idle"
    /\ src_files = <<>>
    /\ closed = {}
    /\ profile = NoProfile
    /\ dst_exists = FALSE
    /\ dst_data = NoData
    /\ idx = 0
    /\ k = 0
    /\ out_data = NoData
    /\ has_valid_data = FALSE
    /\ unclipped = NoData
    /\ footprint = {}
    /\ raised = ""
    /\ warned = FALSE

\* list(rem.block_windows(1))
HandWindows(call) == BlockWindows(HandProfile(call.catchment))

\* Mutant of OnWindowError: the error is swallowed and the run goes on to
\* deliver the temporary raster.
OnWindowErrorDeliver == "deliver"

\* Where an error raised while a window is read or written leaves the
\* call: out of it, through the exits of the with blocks.
OnWindowError == "failed"

\* An error leaves the call.
HandRaise(i, err, at) ==
    inv' = [inv EXCEPT ![i].raised = err, ![i].pc = at]

\* The catchment and the forecast are loaded, the frames merged and
\* stage_map built; an empty merge raises ValueError.
BuildStageMap(i) ==
    /\ inv[i].pc = "load"
    /\ LET m == StageMap(inv[i].catchment.hydrotable_entries, inv[i].forecast)
       IN  IF DOMAIN m = {}
           THEN HandRaise(i, "ValueError: no matching forecast", "failed")
           ELSE inv' = [inv EXCEPT ![i].stage_map = m, ![i].pc = "open"]
    /\ UNCHANGED <<mosaicker, fs>>

\* The catchment JSON or the forecast CSV cannot be read.
LoadFails(i) ==
    /\ inv[i].pc = "load"
    /\ HandRaise(i, "OSError: load", "failed")
    /\ UNCHANGED <<mosaicker, fs>>

\* rasterio.open(rem_path), rasterio.open(cat_path)
OpenRasters(i) ==
    /\ inv[i].pc = "open"
    /\ inv' = [inv EXCEPT ![i].pc = "create"]
    /\ UNCHANGED <<mosaicker, fs>>

OpenRastersFails(i) ==
    /\ inv[i].pc = "open"
    /\ HandRaise(i, "RasterioIOError: open", "failed")
    /\ UNCHANGED <<mosaicker, fs>>

\* rasterio.open(temp_output, "w", **profile): the file found at the path
\* is deleted and a new one created.
CreateTemp(i) ==
    /\ inv[i].pc = "create"
    /\ fs' = [fs EXCEPT ![TempOutput] = FreshRaster(HandProfile(inv[i].catchment), i)]
    /\ inv' = [inv EXCEPT ![i].pc = "window", ![i].win = 1]
    /\ UNCHANGED mosaicker

CreateTempFails(i) ==
    /\ inv[i].pc = "create"
    /\ HandRaise(i, "RasterioIOError: create", "failed")
    /\ UNCHANGED <<mosaicker, fs>>

\* One turn of "for _, window in windows": the two reads, the inundation
\* array, dst.write.
ProcessWindow(i) ==
    /\ inv[i].pc = "window"
    /\ LET call == inv[i]
           w    == HandWindows(call)[call.win]
           out  == InundateWindow(call.catchment.rem, call.catchment.cat, w,
                                  call.stage_map)
       IN  /\ fs' = [path \in DOMAIN fs |->
                       IF path \in OwnPaths(i)
                       THEN [fs[path] EXCEPT !.data = WriteWindow(@, w, out),
                                             !.written = @ \cup {call.win}]
                       ELSE fs[path]]
           /\ inv' = IF call.win < Len(HandWindows(call))
                     THEN [inv EXCEPT ![i].win = call.win + 1]
                     ELSE [inv EXCEPT ![i].pc = "close"]
    /\ UNCHANGED mosaicker

\* dst.close(): the file behind call i's dataset is no longer open.
CloseDst(i) ==
    [path \in DOMAIN fs |->
        IF path \in OwnPaths(i) THEN [fs[path] EXCEPT !.open = FALSE] ELSE fs[path]]

\* A read or the write of a window raises: the with blocks close dst, cat
\* and rem, and the error goes on.
WindowFails(i) ==
    /\ inv[i].pc = "window"
    /\ fs' = CloseDst(i)
    /\ HandRaise(i, "RasterioIOError: window", OnWindowError)
    /\ UNCHANGED mosaicker

\* The end of the with blocks: dst is closed.
CloseTemp(i) ==
    /\ inv[i].pc = "close"
    /\ fs' = CloseDst(i)
    /\ inv' = [inv EXCEPT ![i].pc = "deliver"]
    /\ UNCHANGED mosaicker

\* What a copy of file f holds: f as it is at the time of the copy, and no
\* dataset's file.
Snapshot(f) == IF f.kind = "raster" THEN [f EXCEPT !.open = FALSE] ELSE f

\* s3_client.upload_file(temp_output, bucket, key), or os.makedirs and
\* shutil.move(temp_output, output_path); return output_path.  The upload
\* copies whatever file is at temp_output; the move renames it, or copies
\* and removes it when output_path is on another file system.
Deliver(i) ==
    /\ inv[i].pc = "deliver"
    /\ fs[TempOutput] # Absent
    /\ LET out == inv[i].output_path
       IN  fs' \in IF out.s3
                   THEN {[fs EXCEPT ![out] = Snapshot(fs[TempOutput])]}
                   ELSE {[fs EXCEPT ![out] = fs[TempOutput], ![TempOutput] = Absent],
                         [fs EXCEPT ![out] = Snapshot(fs[TempOutput]),
                                    ![TempOutput] = Absent]}
    /\ inv' = [inv EXCEPT ![i].pc = "returned"]
    /\ UNCHANGED mosaicker

\* No file is at temp_output when the call comes to upload or move it:
\* upload_file and shutil.move raise.
DeliverNoTemp(i) ==
    /\ inv[i].pc = "deliver"
    /\ fs[TempOutput] = Absent
    /\ HandRaise(i, "FileNotFoundError: temp_output", "failed")
    /\ UNCHANGED <<mosaicker, fs>>

\* The upload, os.makedirs or the move raises.  An upload that fails puts
\* no object; a move that fails leaves output_path as it was, or, when it
\* copies across file systems, with the copy cut off.
DeliverFails(i) ==
    /\ inv[i].pc = "deliver"
    /\ fs[TempOutput] # Absent
    /\ LET out == inv[i].output_path
       IN  fs' \in {fs} \cup (IF out.s3 THEN {} ELSE {[fs EXCEPT ![out] = Truncated]})
    /\ HandRaise(i, "OSError: deliver", "failed")
    /\ UNCHANGED mosaicker

(***************************************************************************)
(* The arguments drawn for a call.  The hydrotable has two entries: 1 is   *)
(* no lake, 2 is a lake or not; catchment id 3 has no entry.  The rasters  *)
(* are one row of MaxCells pixels at most, each pixel a REM sample and a   *)
(* catchment id.  The forecast has a row for feature 101, for feature 102, *)
(* for both or for neither.                                                *)
(***************************************************************************)
\* Largest width (in pixels) of the raster pair.
MaxCells == 3

HydroEntries(lake2) ==
    [h \in {1, 2} |->
        IF h = 1
        THEN [stage |-> <<0, 4, 6>>, discharge_cms |-> <<0, 10, 30>>,
              nwm_feature_id |-> 101, lake_id |-> LakeNone]
        ELSE [stage |-> <<1, 4>>, discharge_cms |-> <<0, 10>>,
              nwm_feature_id |-> 102, lake_id |-> lake2]]

\* <<REM sample, catchment id>>
PixelKinds ==
    {<<-1, 1>>, <<0, 1>>, <<3, 1>>, <<-1, 2>>, <<0, 2>>, <<3, 2>>, <<0, 3>>}

RasterPairs ==
    UNION { [Pixels(1, w) -> PixelKinds] : w \in 1 .. MaxCells }

Catchment(lake2, pair) ==
    LET w == Cardinality(DOMAIN pair)
    IN  [hydrotable_entries |-> HydroEntries(lake2),
         width |-> w,
         rem |-> [q \in Pixels(1, w) |-> pair[q][1]],
         cat |-> [q \in Pixels(1, w) |-> pair[q][2]]]

Catchments == { Catchment(lake2, pair) : lake2 \in {LakeNone, 7}, pair \in RasterPairs }

Forecasts ==
    { a \o b :
        a \in {<<>>, <<[feature_id |-> 101, discharge |-> 5]>>,
                     <<[feature_id |-> 101, discharge |-> 20]>>},
        b \in {<<>>, <<[feature_id |-> 102, discharge |-> 5]>>} }

OutputPaths ==
    {[s3 |-> FALSE, name |-> "out/extent.tif"],
     [s3 |-> TRUE, name |-> "s3://bucket/extent.tif"]}

Call(catchment, forecast, out) ==
    [catchment |-> catchment, forecast |-> forecast, output_path |-> out,
     pc |-> "load", stage_map |-> <<>>, win |-> 0, raised |-> ""]

InitHand ==
    /\ MosaickerIdle
    /\ \E catchment \in Catchments, forecast \in Forecasts, out \in OutputPaths :
         /\ inv = <<Call(catchment, forecast, out)>>
         /\ \E before \in {Absent, OldFile} :
              fs = [path \in {TempOutput, out} |->
                        IF path = out THEN before ELSE Absent]

NextHand ==
    \/ \E i \in DOMAIN inv : BuildStageMap(i)
    \/ \E i \in DOMAIN inv : LoadFails(i)
    \/ \E i \in DOMAIN inv : OpenRasters(i)
    \/ \E i \in DOMAIN inv : OpenRastersFails(i)
    \/ \E i \in DOMAIN inv : CreateTemp(i)
    \/ \E i \in DOMAIN inv : CreateTempFails(i)
    \/ \E i \in DOMAIN inv : ProcessWindow(i)
    \/ \E i \in DOMAIN inv : WindowFails(i)
    \/ \E i \in DOMAIN inv : CloseTemp(i)
    \/ \E i \in DOMAIN inv : Deliver(i)
    \/ \E i \in DOMAIN inv : DeliverFails(i)

SpecHand == InitHand /\ [][NextHand]_vars

(***************************************************************************)
(* Vocabulary of the inundator's properties.                               *)
(***************************************************************************)
HandPixels(call) == Pixels(1, call.catchment.width)

\* Catchment id has an interpolated stage: its hydrotable entry is no lake
\* and a forecast row carries its feature.
HasStage(call, id) ==
    LET entries == call.catchment.hydrotable_entries
    IN  /\ id \in DOMAIN entries
        /\ entries[id].lake_id = LakeNone
        /\ \E r \in 1 .. Len(call.forecast) :
              call.forecast[r].feature_id = entries[id].nwm_feature_id

\* The REM sample v is at or below the stage of catchment id: the rating
\* curve read at the discharge forecast for the catchment's feature.
AtOrBelowStage(call, id, v) ==
    LET e == call.catchment.hydrotable_entries[id]
        r == CHOOSE r \in 1 .. Len(call.forecast) :
                 call.forecast[r].feature_id = e.nwm_feature_id
        s == Interp(call.forecast[r].discharge, e.discharge_cms, e.stage)
    IN  v * s.den <= s.num

ExpectedInundation(call, q) ==
    LET v  == call.catchment.rem[q]
        id == call.catchment.cat[q]
    IN  IF v >= 0 /\ HasStage(call, id) /\ AtOrBelowStage(call, id, v)
        THEN 1 ELSE 0

\* Pixel q lies in a window already written to the temporary raster.
HandWritten(call, q) ==
    \E n \in fs[TempOutput].written : InWindow(q, HandWindows(call)[n])

(***************************************************************************)
(* C19.  inundate writes, for every pixel, 1 exactly when the REM sample   *)
(* is valid (>= 0), the pixel's catchment id has an interpolated stage     *)
(* (its hydrotable entry has lake_id -999 and a forecast row matches its   *)
(* feature) and the sample is at or below that stage, and 0 for every      *)
(* other pixel; the nodata 255 is never written.                           *)
(***************************************************************************)
C19_PixelRule ==
    \A i \in DOMAIN inv :
        LET call == inv[i]
        IN  /\ call.pc \in {"window", "close", "deliver"} =>
                  \A q \in HandPixels(call) :
                      HandWritten(call, q) =>
                          /\ fs[TempOutput].data[q] = ExpectedInundation(call, q)
                          /\ fs[TempOutput].data[q] # HandNodata
            /\ call.pc = "returned" =>
                  /\ fs[call.output_path].kind = "raster"
                  /\ \A q \in HandPixels(call) :
                        /\ fs[call.output_path].data[q] = ExpectedInundation(call, q)
                        /\ fs[call.output_path].data[q] \in {0, 1}

\* A call has returned a raster with a pixel that is 1 under a REM sample
\* of 0, a pixel that is 0 above its stage, a pixel that is 0 in a lake's
\* catchment and a pixel that is 0 under an invalid REM sample.
C19_Witness ==
    \E i \in DOMAIN inv :
        LET call == inv[i]
            out  == fs[call.output_path]
            rem  == call.catchment.rem
            cat  == call.catchment.cat
        IN  /\ call.pc = "returned"
            /\ \E q \in HandPixels(call) : rem[q] = 0 /\ out.data[q] = 1
            /\ \E q \in HandPixels(call) :
                  rem[q] = 3 /\ HasStage(call, cat[q]) /\ out.data[q] = 0
            /\ \E q \in HandPixels(call) :
                  /\ rem[q] = 0 /\ cat[q] = 2 /\ out.data[q] = 0
                  /\ call.catchment.hydrotable_entries[2].lake_id # LakeNone

\* The temporary raster is complete: every window written, the dataset
\* closed.
TempComplete(call) ==
    /\ fs[TempOutput].kind = "raster"
    /\ ~fs[TempOutput].open
    /\ fs[TempOutput].written = DOMAIN HandWindows(call)

\* What output_path holds is what it held before the call.
OutputUntouched(call) == fs[call.output_path] \in {Absent, OldFile}

\* The errors raised before the delivery.
EarlierErrors ==
    {"ValueError: no matching forecast", "OSError: load", "RasterioIOError: open",
     "RasterioIOError: create", "RasterioIOError: window"}

(***************************************************************************)
(* C20.  inundate delivers to output_path only a complete raster: the      *)
(* temporary raster is moved or uploaded only once every window has been   *)
(* written and the temporary dataset closed, and a run that fails before   *)
(* the delivery creates and changes nothing at output_path.  output_path   *)
(* is another path than the temporary one.                                 *)
(***************************************************************************)
C20_DeliversCompleteRaster ==
    /\ [](\A i \in DOMAIN inv :
            LET call == inv[i]
            IN  /\ call.pc \in {"load", "open", "create", "window", "close", "deliver"}
                      => OutputUntouched(call)
                /\ call.pc = "deliver" => TempComplete(call)
                /\ (call.pc = "failed" /\ call.raised \in EarlierErrors)
                      => OutputUntouched(call)
                /\ call.pc = "returned" =>
                      /\ fs[call.output_path].kind = "raster"
                      /\ ~fs[call.output_path].open
                      /\ fs[call.output_path].written = DOMAIN HandWindows(call))
    /\ [][\A i \in DOMAIN inv :
             fs'[inv[i].output_path] # fs[inv[i].output_path] =>
                 (inv[i].pc = "deliver" /\ TempComplete(inv[i]))]_vars

\* A call over two windows has failed on its second window, the first one
\* written to the temporary raster, with the file at output_path as it was.
C20_Witness ==
    \E i \in DOMAIN inv :
        /\ inv[i].pc = "failed"
        /\ inv[i].raised = "RasterioIOError: window"
        /\ Len(HandWindows(inv[i])) = 2
        /\ fs[TempOutput].kind = "raster"
        /\ fs[TempOutput].written = {1}
        /\ fs[inv[i].output_path] = OldFile

(***************************************************************************)
(* Two calls of inundate under way at once, in two processes of one host:  *)
(* the steps of the two interleave, and both work on the one path          *)
(* temp_output.  The inputs of the two differ, and so do their output      *)
(* paths; no file is at any of the paths at the start.                     *)
(***************************************************************************)
\* The catchments of the concurrent calls: no lake, every pixel in
\* catchment 1, one REM sample throughout, over one window or two.
ConcurrentCatchments ==
    {c \in Catchments :
        /\ c.hydrotable_entries[2].lake_id = LakeNone
        /\ c.width \in {1, MaxCells}
        /\ \A q \in Pixels(1, c.width) : c.cat[q] = 1
        /\ \E v \in {0, 3} : \A q \in Pixels(1, c.width) : c.rem[q] = v}

\* Their forecasts: feature 101 at a discharge whose stage is 2, or 5.
ConcurrentForecasts ==
    {f \in Forecasts : Len(f) = 1 /\ f[1].feature_id = 101}

ConcurrentOutputs ==
    OutputPaths \cup {[s3 |-> FALSE, name |-> "out/extent_2.tif"]}

InitConcurrent ==
    /\ MosaickerIdle
    /\ \E c1 \in ConcurrentCatchments, c2 \in ConcurrentCatchments,
          f1 \in ConcurrentForecasts, f2 \in ConcurrentForecasts,
          o1 \in ConcurrentOutputs, o2 \in ConcurrentOutputs :
         /\ <<c1, f1>> # <<c2, f2>>
         /\ o1 # o2
         /\ inv = <<Call(c1, f1, o1), Call(c2, f2, o2)>>
         /\ fs = [path \in {TempOutput, o1, o2} |-> Absent]

NextConcurrent ==
    \/ NextHand
    \/ \E i \in DOMAIN inv : DeliverNoTemp(i)

SpecConcurrent == InitConcurrent /\ [][NextConcurrent]_vars

\* Every call is over.
AllCallsOver == \A i \in DOMAIN inv : inv[i].pc \in {"returned", "failed"}

\* output_path holds the complete raster computed from the call's own
\* catchment and forecast.
HoldsOwnRaster(call) ==
    LET f == fs[call.output_path]
    IN  /\ f.kind = "raster"
        /\ ~f.open
        /\ DOMAIN f.data = HandPixels(call)
        /\ \A q \in HandPixels(call) : f.data[q] = ExpectedInundation(call, q)

(***************************************************************************)
(* C21.  Two calls of inundate that run concurrently, with different       *)
(* inputs and different output paths, do not interfere: under every        *)
(* interleaving of their steps, once both calls are over, the output_path  *)
(* of every call that returned holds the raster computed from that call's  *)
(* own catchment and forecast, and no call has failed for want of the      *)
(* temporary file.                                                         *)
(***************************************************************************)
C21_ConcurrentCallsDoNotInterfere ==
    AllCallsOver =>
        \A i \in DOMAIN inv :
            /\ inv[i].pc = "returned" => HoldsOwnRaster(inv[i])
            /\ inv[i].raised # "FileNotFoundError: temp_output"

=============================================================================
